---- MODULE Spec2Model ----
(***************************************************************************)
(* Model of the reboot scheduler service (src/reboot.go).                  *)
(*                                                                         *)
(* Two goroutines of the process are modelled: the control activity        *)
(* (RebootService.Execute, position mainPc) and the wait activity (the     *)
(* goroutine started at line 112, position waitPc).  The service manager   *)
(* is the environment: it holds at most one control request at a time for  *)
(* the req channel and receives every status sent on the status channel.   *)
(* Both channels and done are unbuffered, so a send and its receive are    *)
(* one step.  Time is counted in minutes since 2024-01-01 00:00 local      *)
(* time, in a zone without daylight-saving shifts.                         *)
(***************************************************************************)
EXTENDS Integers, Sequences, FiniteSets, TLC

\* ---------------------------------------------------------------- bounds
MaxNow == 1400          \* the clock advances up to here before the timer is armed
TickMinutes == 720      \* minutes added by one step of the clock
MaxDelayDays == 1       \* config.AfterDays ranges over 0..MaxDelayDays
MaxRequests == 3        \* control requests the service manager issues

\* ------------------------------------------------------- calendar (time)
EpochYear == 2024
MinutesPerHour == 60
MinutesPerDay == 1440

IsLeap(y) == (y % 4 = 0 /\ y % 100 # 0) \/ (y % 400 = 0)

DaysInYear(y) == IF IsLeap(y) THEN 366 ELSE 365

DaysInMonth(y, m) ==
    IF m = 2 THEN (IF IsLeap(y) THEN 29 ELSE 28)
    ELSE IF m \in {4, 6, 9, 11} THEN 30 ELSE 31

RECURSIVE DaysBeforeYear(_)
DaysBeforeYear(y) ==
    IF y <= EpochYear THEN 0 ELSE DaysBeforeYear(y - 1) + DaysInYear(y - 1)

RECURSIVE DaysBeforeMonth(_, _)
DaysBeforeMonth(y, m) ==
    IF m <= 1 THEN 0 ELSE DaysBeforeMonth(y, m - 1) + DaysInMonth(y, m - 1)

\* time.Date(y, m, d, hh, mm, 0, 0, loc): a day beyond the month's end is
\* normalised by counting on from the first of the month.
Date(y, m, d, hh, mm) ==
    (DaysBeforeYear(y) + DaysBeforeMonth(y, m) + d - 1) * MinutesPerDay
        + hh * MinutesPerHour + mm

RECURSIVE YearFrom(_, _)
YearFrom(y, days) ==
    IF days < DaysInYear(y) THEN y ELSE YearFrom(y + 1, days - DaysInYear(y))

RECURSIVE MonthFrom(_, _, _)
MonthFrom(y, m, days) ==
    IF days < DaysInMonth(y, m) THEN m
    ELSE MonthFrom(y, m + 1, days - DaysInMonth(y, m))

\* now.Year(), now.Month(), now.Day() of the instant t
Year(t) == YearFrom(EpochYear, t \div MinutesPerDay)

Month(t) == MonthFrom(Year(t), 1, (t \div MinutesPerDay) - DaysBeforeYear(Year(t)))

Day(t) ==
    (t \div MinutesPerDay) - DaysBeforeYear(Year(t))
        - DaysBeforeMonth(Year(t), Month(t)) + 1

\* ------------------------------------------- time.Parse("15:04", config.At)
Digits == {"0", "1", "2", "3", "4", "5", "6", "7", "8", "9"}

DigitVal(ch) ==
    CASE ch = "0" -> 0 [] ch = "1" -> 1 [] ch = "2" -> 2 [] ch = "3" -> 3
      [] ch = "4" -> 4 [] ch = "5" -> 5 [] ch = "6" -> 6 [] ch = "7" -> 7
      [] ch = "8" -> 8 [] ch = "9" -> 9

IsDigit(s, i) == i <= Len(s) /\ s[i] \in Digits

ParseFailure == [ok |-> FALSE, hour |-> 0, minute |-> 0]

\* The hour ("15") takes one or two digits, the minute ("04") exactly two;
\* the hour must be below 24, the minute below 60, and no text may follow.
ParseAt(s) ==
    IF ~IsDigit(s, 1) THEN ParseFailure
    ELSE LET two  == IsDigit(s, 2)
             hour == IF two THEN 10 * DigitVal(s[1]) + DigitVal(s[2])
                     ELSE DigitVal(s[1])
             p    == IF two THEN 3 ELSE 2      \* position of the colon
         IN  IF hour >= 24 THEN ParseFailure
             ELSE IF ~(p <= Len(s) /\ s[p] = ":") THEN ParseFailure
             ELSE IF ~(IsDigit(s, p + 1) /\ IsDigit(s, p + 2)) THEN ParseFailure
             ELSE LET minute == 10 * DigitVal(s[p + 1]) + DigitVal(s[p + 2])
                  IN  IF minute >= 60 THEN ParseFailure
                      ELSE IF Len(s) # p + 2 THEN ParseFailure
                      ELSE [ok |-> TRUE, hour |-> hour, minute |-> minute]

\* A calculator that moves a fire time that has passed to the next day.
RestartDateTimeNextDay(t, days, at) ==
    LET r == Date(Year(t), Month(t), Day(t) + days, ParseAt(at).hour, ParseAt(at).minute)
    IN  IF r <= t THEN r + MinutesPerDay ELSE r

\* A calculator that keeps the day within the month of now instead of
\* letting it roll over.
RestartDateTimeClampDay(t, days, at) ==
    LET last == DaysInMonth(Year(t), Month(t))
        d    == IF Day(t) + days > last THEN last ELSE Day(t) + days
    IN  Date(Year(t), Month(t), d, ParseAt(at).hour, ParseAt(at).minute)

\* restartDateTime of calculateSleepDuration, for the instant t (line 68)
RestartDateTime(t, days, at) ==
    Date(Year(t), Month(t), Day(t) + days, ParseAt(at).hour, ParseAt(at).minute)

\* ------------------------------------------------------------ the inputs
AtValues ==
    { <<"2", "3", ":", "5", "0">>,
      <<"1", "0", ":", "0", "0">>,
      <<"9", ":", "0", "5">>,
      <<"2", "4", ":", "0", "0">>,
      <<"1", "0", ":", "0">>,
      <<>> }

Configs == [AfterDays : 0 .. MaxDelayDays, At : AtValues]

ZeroConfig == [AfterDays |-> 0, At |-> <<>>]

StartTimes == {600}       \* 2024-01-01 10:00

\* svc.Cmd values the service manager delivers
Cmds == {"Interrogate", "Stop", "Shutdown", "ParamChange"}

NoCmd == "None"

\* svc.Status values
cmdsAccepted == {"Stop", "Shutdown"}

StoppedStatus == [State |-> "Stopped", Accepts |-> {}]

StartPendingStatus == [State |-> "StartPending", Accepts |-> {}]

RunningStatus == [State |-> "Running", Accepts |-> cmdsAccepted]

StopPendingStatus == [State |-> "StopPending", Accepts |-> {}]

NoRequest == [Cmd |-> NoCmd, CurrentStatus |-> StoppedStatus]

\* -------------------------------------------------------------- the state
VARIABLES
    now,            \* the wall clock
    config,         \* the global config (AfterDays, At)
    proc,           \* "alive", "fatal" (log.Fatalf, exit status 1), "exited"
    mainPc,         \* position of Execute
    retCode,        \* errno returned by Execute, -1 before it returns
    c,              \* the change request last received by the control loop
    done,           \* whether the done channel can be received from
    waitPc,         \* position of the wait goroutine
    calcNow,        \* now of calculateSleepDuration
    fireTime,       \* restartDateTime of calculateSleepDuration
    sleepDuration,  \* what calculateSleepDuration returned
    timer,          \* "none", "armed", "fired" (value received), "stopped"
    deadline,       \* the instant the armed timer expires
    rebootCalls,    \* calls of reboot()
    rebootErr,      \* err of cmd.Run() in reboot(): "none" before it returns
    cancelled,      \* a Stop/Shutdown was accepted before the timer expired
    supCmd,         \* the request the service manager holds for req
    issued,         \* requests the service manager has issued
    statusLog       \* every status received on the status channel, in order

vars == <<now, config, proc, mainPc, retCode, c, done, waitPc, calcNow, fireTime,
          sleepDuration, timer, deadline, rebootCalls, rebootErr, cancelled, supCmd,
          issued, statusLog>>

mainVars == <<mainPc, retCode, c>>

waitVars == <<waitPc, calcNow, fireTime, sleepDuration, timer, deadline, rebootCalls,
              rebootErr>>

supVars == <<supCmd, issued>>

Alive == proc = "alive"

\* A timer that is noticed only at the very instant of its deadline.
TimerExpiredExactly == timer = "armed" /\ now = deadline

\* timer.C holds a value: the timer was armed and its duration has passed;
\* a zero or negative duration has passed at once.
TimerExpired == timer = "armed" /\ now >= deadline

\* The status the service manager puts in a request: the last one it received.
CurrentStatus ==
    IF statusLog = <<>> THEN StoppedStatus ELSE statusLog[Len(statusLog)]

Init ==
    /\ now \in StartTimes
    /\ config = ZeroConfig
    /\ proc = "alive"
    /\ mainPc = "openLog"
    /\ retCode = -1
    /\ c = NoRequest
    /\ done = FALSE
    /\ waitPc = "none"
    /\ calcNow = 0
    /\ fireTime = 0
    /\ sleepDuration = 0
    /\ timer = "none"
    /\ deadline = 0
    /\ rebootCalls = 0
    /\ rebootErr = "none"
    /\ cancelled = FALSE
    /\ supCmd = NoCmd
    /\ issued = 0
    /\ statusLog = <<>>

\* ------------------------------------------------ the clock (environment)
\* Time passes.  The clock is stopped once nothing can depend on it any more:
\* beyond MaxNow while no timer is armed, beyond the deadline of an armed one.
ClockLimit == IF timer = "armed" /\ deadline > MaxNow THEN deadline ELSE MaxNow

Tick ==
    /\ now < ClockLimit
    /\ now' = now + TickMinutes
    /\ UNCHANGED <<config, proc, mainVars, done, waitVars, cancelled, supVars, statusLog>>

\* ------------------------------------- the service manager (environment)
\* The service manager takes the next control request; it holds one at a time
\* until the control loop receives it.
SupIssue ==
    /\ Alive
    /\ mainPc # "returned"
    /\ supCmd = NoCmd
    /\ issued < MaxRequests
    /\ \E cmd \in Cmds : supCmd' = cmd
    /\ issued' = issued + 1
    /\ UNCHANGED <<now, config, proc, mainVars, done, waitVars, cancelled, statusLog>>

\* ------------------------------------------------- RebootService.Execute
\* lines 91-95: the log file is opened, or Execute returns (false, 1)
OpenLog ==
    /\ Alive
    /\ mainPc = "openLog"
    /\ \E ok \in BOOLEAN :
         IF ok THEN mainPc' = "startPending" /\ retCode' = retCode
         ELSE mainPc' = "returned" /\ retCode' = 1
    /\ UNCHANGED <<now, config, proc, c, done, waitVars, cancelled, supVars, statusLog>>

\* line 103: status <- svc.Status{State: svc.StartPending}
SendStartPending ==
    /\ Alive
    /\ mainPc = "startPending"
    /\ statusLog' = Append(statusLog, StartPendingStatus)
    /\ mainPc' = "loadConfig"
    /\ UNCHANGED <<now, config, proc, retCode, c, done, waitVars, cancelled, supVars>>

\* line 108: loadConfig() fills the global config, or ends the process
LoadConfig ==
    /\ Alive
    /\ mainPc = "loadConfig"
    /\ \E ok \in BOOLEAN, cfg \in Configs :
         IF ok THEN config' = cfg /\ mainPc' = "startWait" /\ proc' = proc
         ELSE config' = config /\ mainPc' = mainPc /\ proc' = "fatal"
    /\ UNCHANGED <<now, retCode, c, done, waitVars, cancelled, supVars, statusLog>>

\* lines 111-112: done := make(chan struct{}); go func() {...}()
StartWait ==
    /\ Alive
    /\ mainPc = "startWait"
    /\ done' = FALSE
    /\ waitPc' = "calc"
    /\ mainPc' = "running"
    /\ UNCHANGED <<now, config, proc, retCode, c, calcNow, fireTime, sleepDuration,
                   timer, deadline, rebootCalls, rebootErr, cancelled, supVars, statusLog>>

\* line 127: status <- svc.Status{State: svc.Running, Accepts: cmdsAccepted}
SendRunning ==
    /\ Alive
    /\ mainPc = "running"
    /\ statusLog' = Append(statusLog, RunningStatus)
    /\ mainPc' = "loop"
    /\ UNCHANGED <<now, config, proc, retCode, c, done, waitVars, cancelled, supVars>>

\* A switch whose Interrogate case falls out of the loop like Stop.
AfterRequestLeavesLoop(cmd) ==
    IF cmd = "Interrogate" THEN "stopPending"
    ELSE IF cmd \in {"Stop", "Shutdown"} THEN "stopPending"
    ELSE "loop"

\* A switch whose default case leaves the loop.
AfterRequestDefaultBreaks(cmd) ==
    IF cmd = "Interrogate" THEN "interrogate" ELSE "stopPending"

\* A switch that has a case for Stop only.
AfterRequestStopOnly(cmd) ==
    IF cmd = "Interrogate" THEN "interrogate"
    ELSE IF cmd = "Stop" THEN "stopPending"
    ELSE "loop"

\* lines 134-139: where the switch on c.Cmd leads
AfterRequest(cmd) ==
    IF cmd = "Interrogate" THEN "interrogate"
    ELSE IF cmd \in {"Stop", "Shutdown"} THEN "stopPending"
    ELSE "loop"

\* lines 131-142: the select of the control loop, one of its ready cases
ControlLoop ==
    /\ Alive
    /\ mainPc = "loop"
    /\ \E branch \in {"req", "done"} :
         IF branch = "req"
         THEN /\ supCmd # NoCmd
              /\ c' = [Cmd |-> supCmd, CurrentStatus |-> CurrentStatus]
              /\ supCmd' = NoCmd
              /\ mainPc' = AfterRequest(supCmd)
              /\ cancelled' = (cancelled \/ (supCmd \in {"Stop", "Shutdown"}
                                              /\ timer \in {"none", "armed"}
                                              /\ ~TimerExpired))
         ELSE /\ done
              /\ mainPc' = "stopPending"
              /\ UNCHANGED <<c, supCmd, cancelled>>
    /\ UNCHANGED <<now, config, proc, retCode, done, waitVars, issued, statusLog>>

\* A reply that reports the start status instead of the one in the request.
ReplyStartPending ==
    /\ Alive
    /\ mainPc = "interrogate"
    /\ statusLog' = Append(statusLog, StartPendingStatus)
    /\ mainPc' = "loop"
    /\ UNCHANGED <<now, config, proc, retCode, c, done, waitVars, cancelled, supVars>>

\* A reply that builds a Running status of its own and forgets Accepts.
ReplyWithoutAccepts ==
    /\ Alive
    /\ mainPc = "interrogate"
    /\ statusLog' = Append(statusLog, [State |-> "Running", Accepts |-> {}])
    /\ mainPc' = "loop"
    /\ UNCHANGED <<now, config, proc, retCode, c, done, waitVars, cancelled, supVars>>

\* line 136: status <- c.CurrentStatus
ReplyInterrogate ==
    /\ Alive
    /\ mainPc = "interrogate"
    /\ statusLog' = Append(statusLog, c.CurrentStatus)
    /\ mainPc' = "loop"
    /\ UNCHANGED <<now, config, proc, retCode, c, done, waitVars, cancelled, supVars>>

\* line 146: status <- svc.Status{State: svc.StopPending}
SendStopPending ==
    /\ Alive
    /\ mainPc = "stopPending"
    /\ statusLog' = Append(statusLog, StopPendingStatus)
    /\ mainPc' = "return"
    /\ UNCHANGED <<now, config, proc, retCode, c, done, waitVars, cancelled, supVars>>

\* lines 147-148: return false, 0
Return ==
    /\ Alive
    /\ mainPc = "return"
    /\ mainPc' = "returned"
    /\ retCode' = 0
    /\ UNCHANGED <<now, config, proc, c, done, waitVars, cancelled, supVars, statusLog>>

\* lines 242-247: svc.Run returns once Execute has, and main returns: the
\* process ends, and its goroutines with it
MainReturn ==
    /\ Alive
    /\ mainPc = "returned"
    /\ proc' = "exited"
    /\ UNCHANGED <<now, config, mainVars, done, waitVars, cancelled, supVars, statusLog>>

\* ----------------------------------------------------- the wait goroutine
\* line 113 (lines 61-70): calculateSleepDuration()
CalculateSleepDuration ==
    /\ Alive
    /\ waitPc = "calc"
    /\ IF ParseAt(config.At).ok
       THEN /\ calcNow' = now
            /\ fireTime' = RestartDateTime(now, config.AfterDays, config.At)
            /\ sleepDuration' = RestartDateTime(now, config.AfterDays, config.At) - now
            /\ waitPc' = "arm"
            /\ proc' = proc
       ELSE /\ proc' = "fatal"
            /\ UNCHANGED <<calcNow, fireTime, sleepDuration, waitPc>>
    /\ UNCHANGED <<now, config, mainVars, done, timer, deadline, rebootCalls,
                   rebootErr, cancelled, supVars, statusLog>>

\* A timer armed with a zero duration instead of sleepDuration.
NewTimerZero ==
    /\ Alive
    /\ waitPc = "arm"
    /\ timer' = "armed"
    /\ deadline' = now
    /\ waitPc' = "select"
    /\ UNCHANGED <<now, config, proc, mainVars, done, calcNow, fireTime, sleepDuration,
                   rebootCalls, rebootErr, cancelled, supVars, statusLog>>

\* line 117: timer := time.NewTimer(sleepDuration)
NewTimer ==
    /\ Alive
    /\ waitPc = "arm"
    /\ timer' = "armed"
    /\ deadline' = now + sleepDuration
    /\ waitPc' = "select"
    /\ UNCHANGED <<now, config, proc, mainVars, done, calcNow, fireTime, sleepDuration,
                   rebootCalls, rebootErr, cancelled, supVars, statusLog>>

\* lines 118-123: the select of the wait goroutine, one of its ready cases;
\* the timer case enters reboot(), the done case stops the timer
WaitSelect ==
    /\ Alive
    /\ waitPc = "select"
    /\ \E branch \in {"timer", "done"} :
         IF branch = "timer"
         THEN /\ TimerExpired
              /\ timer' = "fired"
              /\ rebootCalls' = rebootCalls + 1
              /\ waitPc' = "reboot"
         ELSE /\ done
              /\ timer' = "stopped"
              /\ rebootCalls' = rebootCalls
              /\ waitPc' = "exited"
    /\ UNCHANGED <<now, config, proc, mainVars, done, calcNow, fireTime, sleepDuration,
                   deadline, rebootErr, cancelled, supVars, statusLog>>

\* A reboot() that calls itself again when the command fails.
RebootRetry ==
    /\ Alive
    /\ waitPc = "reboot"
    /\ \E ok \in BOOLEAN :
         IF ok THEN waitPc' = "exited" /\ rebootCalls' = rebootCalls /\ rebootErr' = "nil"
         ELSE /\ waitPc' = waitPc
              /\ rebootCalls' = rebootCalls + 1
              /\ rebootErr' = "failed"
    /\ UNCHANGED <<now, config, proc, mainVars, done, calcNow, fireTime, sleepDuration,
                   timer, deadline, cancelled, supVars, statusLog>>

\* A reboot() that only logs the failure of the command and returns.
RebootLogsFailure ==
    /\ Alive
    /\ waitPc = "reboot"
    /\ \E ok \in BOOLEAN :
         /\ waitPc' = "exited"
         /\ rebootErr' = (IF ok THEN "nil" ELSE "failed")
    /\ UNCHANGED <<now, config, proc, mainVars, done, calcNow, fireTime, sleepDuration,
                   timer, deadline, rebootCalls, cancelled, supVars, statusLog>>

\* A reboot() that reports its completion on done when the command succeeded.
RebootSignalsDone ==
    /\ Alive
    /\ waitPc = "reboot"
    /\ \E ok \in BOOLEAN :
         IF ok THEN waitPc' = "exited" /\ proc' = proc /\ rebootErr' = "nil" /\ done' = TRUE
         ELSE waitPc' = waitPc /\ proc' = "fatal" /\ rebootErr' = "failed" /\ done' = done
    /\ UNCHANGED <<now, config, mainVars, calcNow, fireTime, sleepDuration,
                   timer, deadline, rebootCalls, cancelled, supVars, statusLog>>

\* lines 75-80: cmd.Run() of the shutdown command returns; a failure ends the
\* process (log.Fatalf), a success ends the goroutine
Reboot ==
    /\ Alive
    /\ waitPc = "reboot"
    /\ \E ok \in BOOLEAN :
         IF ok THEN waitPc' = "exited" /\ proc' = proc /\ rebootErr' = "nil"
         ELSE waitPc' = waitPc /\ proc' = "fatal" /\ rebootErr' = "failed"
    /\ UNCHANGED <<now, config, mainVars, done, calcNow, fireTime, sleepDuration,
                   timer, deadline, rebootCalls, cancelled, supVars, statusLog>>

\* ------------------------------------------------------ the specifications
MainStep ==
    \/ OpenLog
    \/ SendStartPending
    \/ LoadConfig
    \/ StartWait
    \/ SendRunning
    \/ ControlLoop
    \/ ReplyInterrogate
    \/ SendStopPending
    \/ Return
    \/ MainReturn

WaitStep ==
    \/ CalculateSleepDuration
    \/ NewTimer
    \/ WaitSelect
    \/ Reboot

Next == Tick \/ SupIssue \/ MainStep \/ WaitStep

Spec == Init /\ [][Next]_vars

\* The Go scheduler runs every runnable goroutine eventually, the service
\* manager is always ready to receive a status, and time passes.  Nothing
\* obliges the service manager to issue a request.
FairSpec ==
    /\ Spec
    /\ WF_vars(Tick)
    /\ WF_vars(MainStep)
    /\ WF_vars(WaitStep)

TypeOK ==
    /\ now \in Nat
    /\ config \in Configs \cup {ZeroConfig}
    /\ proc \in {"alive", "fatal", "exited"}
    /\ mainPc \in {"openLog", "startPending", "loadConfig", "startWait", "running",
                   "loop", "interrogate", "stopPending", "return", "returned"}
    /\ retCode \in {-1, 0, 1}
    /\ done \in BOOLEAN
    /\ waitPc \in {"none", "calc", "arm", "select", "reboot", "exited"}
    /\ timer \in {"none", "armed", "fired", "stopped"}
    /\ rebootCalls \in Nat
    /\ rebootErr \in {"none", "nil", "failed"}
    /\ cancelled \in BOOLEAN
    /\ supCmd \in Cmds \cup {NoCmd}
    /\ issued \in 0 .. MaxRequests

\* ------------------------------------------------------------- the claims
\* A Stop or Shutdown request has been accepted by the control loop.
StopAccepted ==
    /\ mainPc \in {"stopPending", "return", "returned"}
    /\ c.Cmd \in {"Stop", "Shutdown"}

\* The lifecycle state as the service manager sees it: the last status
\* reported, and Stopped once Execute has returned.
LifecycleOf(status) ==
    IF status.State = "StartPending" THEN "Starting"
    ELSE IF status.State = "Running" THEN "Running"
    ELSE IF status.State = "StopPending" THEN "Stopping"
    ELSE "Stopped"

Lifecycle ==
    IF mainPc = "returned" THEN "Stopped"
    ELSE IF statusLog = <<>> THEN "Starting"
    ELSE LifecycleOf(CurrentStatus)

Rank(l) ==
    CASE l = "Starting" -> 1 [] l = "Running" -> 2 [] l = "Stopping" -> 3
      [] l = "Stopped" -> 4

\* C1: in every execution reboot() is called 0 or 1 times, never more.
AtMostOnceFire == rebootCalls \in {0, 1}

\* reboot() was called once, and a Stop or Shutdown was accepted as well
AtMostOnceFireWitness == rebootCalls = 1 /\ StopAccepted /\ mainPc = "returned"

\* C2: once a Stop or Shutdown has been accepted before the timer expired,
\* reboot() is never called.
NoFireAfterCancel == cancelled => rebootCalls = 0

\* C3: reboot() is called only by the step of the wait goroutine that receives
\* from the expired timer, at or after the fire time; no step of the control
\* loop calls it.
FireOnlyViaTimer ==
    [][rebootCalls' # rebootCalls =>
          /\ waitPc = "select"
          /\ TimerExpired
          /\ now >= fireTime
          /\ now >= calcNow + sleepDuration
          /\ UNCHANGED <<mainPc, c, supCmd, statusLog>>]_vars

\* reboot() was called for a fire time in the future of the calculation
FireOnlyViaTimerWitness ==
    rebootCalls = 1 /\ timer = "fired" /\ sleepDuration > 0 /\ now >= fireTime

\* C4: the lifecycle state reported to the service manager only moves forward
\* along Starting, Running, Stopping, Stopped, and so does every status in the
\* sequence of reports.
LifecycleMonotonic ==
    [][/\ Rank(Lifecycle') >= Rank(Lifecycle)
       /\ \A i \in 1 .. Len(statusLog') : \A j \in i .. Len(statusLog') :
            Rank(LifecycleOf(statusLog'[i])) <= Rank(LifecycleOf(statusLog'[j]))]_vars

\* all four states were passed, with an Interrogate answered in Running
LifecycleMonotonicWitness ==
    /\ mainPc = "returned"
    /\ retCode = 0
    /\ statusLog = <<StartPendingStatus, RunningStatus, RunningStatus, StopPendingStatus>>

\* C5: once reboot() has returned successfully the service goes on to Stopping
\* and Stopped by itself: with no control request issued at all, Execute
\* returns (or, at the latest, a first request is issued).
TimerFireLeadsToStopped ==
    (waitPc = "exited" /\ issued = 0) ~> (mainPc = "returned" \/ issued > 0)

\* C6: with a valid configuration, unless a Stop or Shutdown is accepted, the
\* timer expires and reboot() is called exactly once, at or after the fire time.
ScheduledFireHappens ==
    (waitPc = "calc" /\ ParseAt(config.At).ok)
        ~> ((rebootCalls = 1 /\ now >= fireTime) \/ StopAccepted)

\* reboot() was called after the fire time with two Interrogates answered and
\* no Stop or Shutdown accepted
ScheduledFireHappensWitness ==
    /\ rebootCalls = 1
    /\ sleepDuration > 0
    /\ now >= fireTime
    /\ mainPc = "loop"
    /\ Len(statusLog) = 4

\* C7: once a Stop or Shutdown has been accepted, the service ends in Stopped
\* with exit code 0: the process does not end in any other way.
PromptCancellation == StopAccepted => (proc = "alive" \/ retCode = 0)

\* C8: handling an Interrogate (receiving it, and replying to it) leaves the
\* lifecycle state, the timer, the wait goroutine and the count of reboot()
\* calls unchanged, and the control loop goes on listening.
InterrogateTransparency ==
    [][/\ (mainPc = "loop" /\ supCmd = "Interrogate" /\ supCmd' = NoCmd) =>
             /\ mainPc' = "interrogate"
             /\ Lifecycle' = Lifecycle
             /\ UNCHANGED <<waitVars, done, proc, retCode>>
       /\ (mainPc = "interrogate" /\ mainPc' # mainPc) =>
             /\ mainPc' = "loop"
             /\ Lifecycle' = Lifecycle
             /\ Lifecycle = "Running"
             /\ UNCHANGED <<waitVars, done, proc, retCode>>]_vars

\* two Interrogates were handled and the control loop listens, the timer armed
InterrogateTransparencyWitness ==
    /\ mainPc = "loop"
    /\ c.Cmd = "Interrogate"
    /\ timer = "armed"
    /\ statusLog = <<StartPendingStatus, RunningStatus, RunningStatus, RunningStatus>>

\* C9: an Interrogate received by the control loop is answered by exactly one
\* status report, which is the last status reported, Running with Stop and
\* Shutdown accepted.
InterrogateReply ==
    [][/\ mainPc = "interrogate" =>
             /\ c.Cmd = "Interrogate"
             /\ c.CurrentStatus = RunningStatus
             /\ CurrentStatus = RunningStatus
       /\ (mainPc = "loop" /\ supCmd = "Interrogate" /\ supCmd' = NoCmd) =>
             /\ mainPc' = "interrogate"
             /\ statusLog' = statusLog
       /\ (mainPc = "interrogate" /\ statusLog' = statusLog) => mainPc' = mainPc
       /\ (mainPc = "interrogate" /\ statusLog' # statusLog) =>
             /\ statusLog' = Append(statusLog, RunningStatus)
             /\ mainPc' = "loop"]_vars

\* the one Interrogate issued was answered with Running while reboot() is
\* executing
InterrogateReplyWitness ==
    /\ mainPc = "loop"
    /\ c.Cmd = "Interrogate"
    /\ waitPc = "reboot"
    /\ issued = 1
    /\ statusLog = <<StartPendingStatus, RunningStatus, RunningStatus>>

\* The configured time of day has been reached on the day of the calculation,
\* with no days of delay.
PastDue ==
    /\ waitPc \in {"arm", "select"}
    /\ config.AfterDays = 0
    /\ ParseAt(config.At).hour * MinutesPerHour + ParseAt(config.At).minute
         <= calcNow % MinutesPerDay

\* C10: when the fire time is not in the future of the calculation, the wait
\* duration is zero or negative, the timer armed with it has expired at once,
\* and reboot() is called unless the process ends first.
ImmediateFire ==
    /\ [](PastDue =>
            /\ fireTime <= calcNow
            /\ sleepDuration <= 0
            /\ (waitPc = "select" => TimerExpired))
    /\ (PastDue ~> (rebootCalls = 1 \/ proc = "exited"))

\* reboot() was called with a negative wait and no time passed since the
\* calculation
ImmediateFireWitness ==
    /\ rebootCalls = 1
    /\ config.AfterDays = 0
    /\ sleepDuration < 0
    /\ now = calcNow

\* C11: when the shutdown command of reboot() fails, the process ends with a
\* non-zero status and reboot() has been called once; after the failure
\* nothing more happens: no second call, no StopPending report, no return of
\* Execute.
InvokerFailureFatal ==
    [][/\ rebootErr' = "failed" => (proc' = "fatal" /\ rebootCalls' = 1)
       /\ rebootErr = "failed" =>
             UNCHANGED <<proc, rebootCalls, statusLog, retCode, mainPc, waitPc>>]_vars

\* the command failed while the control loop was listening in Running
InvokerFailureFatalWitness ==
    /\ rebootErr = "failed"
    /\ proc = "fatal"
    /\ mainPc = "loop"
    /\ rebootCalls = 1

\* Running has been reported to the service manager.
RunningReported == \E i \in 1 .. Len(statusLog) : statusLog[i].State = "Running"

\* C12: with a time of day that does not parse, the service never gets beyond
\* Starting: Running is not reported, no timer is armed and reboot() is not
\* called.
ConfigErrorFatalInStarting ==
    ~ParseAt(config.At).ok =>
        (~RunningReported /\ timer = "none" /\ rebootCalls = 0)

\* ------------------------------------- the fire-time calculator on its own
MaxCalcDays == 2

\* delays of a few days, of a month, of the default 300 days, of a leap year
CalcDelayDays == (0 .. MaxCalcDays) \cup {30, 300, 366}

\* instants of calculation: the start of the epoch, ends of months, the leap
\* day, ends of years
CalcNows ==
    { Date(2024, 1, 1, 10, 0), Date(2024, 1, 31, 23, 59), Date(2024, 2, 28, 12, 0),
      Date(2024, 2, 29, 0, 0), Date(2024, 4, 30, 10, 0), Date(2024, 12, 31, 23, 50),
      Date(2025, 2, 28, 9, 5), Date(2025, 12, 31, 10, 0) }

\* The wait goroutine is about to call calculateSleepDuration, the control
\* loop is listening: any instant and any configuration of the sets above.
CalcInit ==
    /\ now \in CalcNows
    /\ config \in [AfterDays : CalcDelayDays, At : AtValues]
    /\ proc = "alive"
    /\ mainPc = "loop"
    /\ retCode = -1
    /\ c = NoRequest
    /\ done = FALSE
    /\ waitPc = "calc"
    /\ calcNow = 0
    /\ fireTime = 0
    /\ sleepDuration = 0
    /\ timer = "none"
    /\ deadline = 0
    /\ rebootCalls = 0
    /\ rebootErr = "none"
    /\ cancelled = FALSE
    /\ supCmd = NoCmd
    /\ issued = 0
    /\ statusLog = <<StartPendingStatus, RunningStatus>>

CalcNext == CalculateSleepDuration

CalcSpec == CalcInit /\ [][CalcNext]_vars

\* The first day of the month after that of the calendar date <<y, m, d>>.
NextMonth(date) ==
    IF date[2] < 12 THEN <<date[1], date[2] + 1, 1>> ELSE <<date[1] + 1, 1, 1>>

\* The calendar date n days after date, walking the calendar one month at a
\* time.
RECURSIVE AdvanceDays(_, _)
AdvanceDays(date, n) ==
    LET left == DaysInMonth(date[1], date[2]) - date[3]    \* days left in the month
    IN  IF n <= left THEN <<date[1], date[2], date[3] + n>>
        ELSE AdvanceDays(NextMonth(date), n - left - 1)

\* C13: for a valid time of day HH:MM and delayDays >= 0 the fire time is the
\* calendar date of now advanced by delayDays days, at HH:MM, and the wait
\* duration is the fire time minus now; 2024-01-01 10:00 with 300 days and
\* 23:50 gives 2024-10-27 23:50.
FireTimeCalculation ==
    waitPc = "arm" =>
        /\ <<Year(fireTime), Month(fireTime), Day(fireTime)>>
             = AdvanceDays(<<Year(calcNow), Month(calcNow), Day(calcNow)>>, config.AfterDays)
        /\ fireTime % MinutesPerDay
             = ParseAt(config.At).hour * MinutesPerHour + ParseAt(config.At).minute
        /\ sleepDuration = fireTime - calcNow
        /\ (calcNow = 600 /\ config.AfterDays = 300 /\ config.At = <<"2", "3", ":", "5", "0">>)
             => /\ <<Year(fireTime), Month(fireTime), Day(fireTime)>> = <<2024, 10, 27>>
                /\ fireTime = 300 * MinutesPerDay + 23 * MinutesPerHour + 50

\* the example of the specification was calculated
FireTimeCalculationWitness ==
    /\ waitPc = "arm"
    /\ calcNow = 600
    /\ config = [AfterDays |-> 300, At |-> <<"2", "3", ":", "5", "0">>]
    /\ fireTime = 300 * MinutesPerDay + 23 * MinutesPerHour + 50

\* C14: once StopPending has been reported for an accepted Stop or Shutdown
\* (and when Execute has returned), there is no armed timer with the wait
\* goroutine still waiting on it.
TimerReleasedOnStop ==
    (StopAccepted /\ mainPc \in {"return", "returned"}) =>
        ~(timer = "armed" /\ waitPc = "select")

\* C15: Running is reported only after the fire time was computed and the
\* timer armed.
RunningOnlyOnceArmed == RunningReported => (timer # "none" /\ waitPc \notin {"calc", "arm"})

\* C16: whenever reboot() is called, the last status reported is Running: not
\* StartPending any more, and not StopPending yet.
FireInRunning ==
    [][rebootCalls' # rebootCalls =>
          (statusLog # <<>> /\ CurrentStatus.State = "Running")]_vars

\* Stop for Shutdown and Shutdown for Stop; any other command is itself.
SwapCmd(cmd) ==
    IF cmd = "Stop" THEN "Shutdown" ELSE IF cmd = "Shutdown" THEN "Stop" ELSE cmd

\* SupIssue, read with the commands exchanged
SwappedSupIssue ==
    /\ Alive
    /\ mainPc # "returned"
    /\ SwapCmd(supCmd) = NoCmd
    /\ issued < MaxRequests
    /\ \E cmd \in Cmds : SwapCmd(supCmd') = cmd
    /\ issued' = issued + 1
    /\ UNCHANGED <<now, config, proc, mainPc, retCode, done, waitVars, cancelled, statusLog>>
    /\ SwapCmd(c'.Cmd) = SwapCmd(c.Cmd)
    /\ c'.CurrentStatus = c.CurrentStatus

\* ControlLoop, read with the commands exchanged
SwappedControlLoop ==
    /\ Alive
    /\ mainPc = "loop"
    /\ \E branch \in {"req", "done"} :
         IF branch = "req"
         THEN /\ SwapCmd(supCmd) # NoCmd
              /\ SwapCmd(c'.Cmd) = SwapCmd(supCmd)
              /\ c'.CurrentStatus = CurrentStatus
              /\ SwapCmd(supCmd') = NoCmd
              /\ mainPc' = AfterRequest(SwapCmd(supCmd))
              /\ cancelled' = (cancelled \/ (SwapCmd(supCmd) \in {"Stop", "Shutdown"}
                                              /\ timer \in {"none", "armed"}
                                              /\ ~TimerExpired))
         ELSE /\ done
              /\ mainPc' = "stopPending"
              /\ SwapCmd(c'.Cmd) = SwapCmd(c.Cmd)
              /\ c'.CurrentStatus = c.CurrentStatus
              /\ SwapCmd(supCmd') = SwapCmd(supCmd)
              /\ cancelled' = cancelled
    /\ UNCHANGED <<now, config, proc, retCode, done, waitVars, issued, statusLog>>

\* C17: Stop and Shutdown are equivalent.  Every execution, read with Stop
\* and Shutdown exchanged in the requests of the service manager and in the
\* request the control loop holds, is again an execution of the service; the
\* exchange leaves the status reports, the reboot() calls and the exit code
\* as they are.  (Only SupIssue and ControlLoop read the command.)
StopShutdownEquivalent ==
    /\ SwapCmd(supCmd) = NoCmd /\ SwapCmd(c.Cmd) = NoCmd
    /\ [][\/ SwappedSupIssue
          \/ SwappedControlLoop
          \/ Tick
          \/ OpenLog \/ SendStartPending \/ LoadConfig \/ StartWait \/ SendRunning
          \/ ReplyInterrogate \/ SendStopPending \/ Return \/ MainReturn
          \/ WaitStep]_vars

\* a Shutdown was accepted and Execute returned 0 after reboot() was called
StopShutdownEquivalentWitness ==
    /\ mainPc = "returned"
    /\ c.Cmd = "Shutdown"
    /\ retCode = 0
    /\ rebootCalls = 1
    /\ statusLog = <<StartPendingStatus, RunningStatus, StopPendingStatus>>

DoneNeverSignalled ==
    /\ done = FALSE
    /\ [][/\ done' = FALSE
          /\ timer' # "stopped"
          /\ (mainPc = "loop" /\ mainPc' = "stopPending") =>
                (supCmd \in {"Stop", "Shutdown"} /\ supCmd' = NoCmd /\ UNCHANGED waitVars)
          /\ (StopAccepted /\ timer = "armed") => timer' \in {"armed", "fired"}]_vars

\* the timer fired after a Stop or Shutdown was accepted before its expiry
DoneNeverSignalledWitness ==
    /\ StopAccepted
    /\ cancelled
    /\ timer = "fired"
    /\ rebootCalls = 1

====
